---- MODULE Spec2Model ----
(***************************************************************************)
(* A model of clay.py, the generator that scans a tree of C test sources   *)
(* and renders clay_main.c and clay.h.                                     *)
(*                                                                         *)
(* Text is a sequence of items.  An item is either one lexical character   *)
(* (Ch) or one function signature "void<sp blanks><id>(void) {" (Sig),     *)
(* whose identifier id is a sequence of atoms.  The characters that the    *)
(* scanner's regular expressions treat specially are written               *)
(*   "/"  "*"  "NL" (newline)  "DQ" (double quote)  "SQ" (single quote)    *)
(*   "BS" (backslash).                                                     *)
(* A signature holds none of them, so it behaves as a run of ordinary      *)
(* characters for the comment scanner.                                     *)
(***************************************************************************)
EXTENDS Integers, Sequences, FiniteSets, TLC

VARIABLES
    path,            \* self.path: the scanned root
    clay_path,       \* self.clay_path: <<>> (None) or <<dir>>
    modules,         \* self.modules
    declarations,    \* self.declarations
    suite_names,     \* self.suite_names
    callback_data,   \* self.callback_data
    suite_data,      \* self.suite_data
    event_callbacks, \* self.event_callbacks
    todo,            \* the files os.walk has not yielded yet
    units,           \* the (test_name, contents) pairs handed to _process_test_file
    main_file,       \* <path>/clay_main.c on disk
    header_file,     \* <path>/clay.h on disk
    err,             \* the exception that ended the run, <<>> if none
    pc               \* where main() stands

vars == <<path, clay_path, modules, declarations, suite_names, callback_data,
          suite_data, event_callbacks, todo, units, main_file, header_file,
          err, pc>>

----------------------------------------------------------------------------
(* Bounds of the model *)

\* the scanned tree holds at most MaxLines lines of text over all its files
MaxLines == 3

\* the same bound for the runs that go on to write the two artifacts
MaxRunLines == 2

\* the length of the texts that are drawn character by character
MaxTextLen == 5

----------------------------------------------------------------------------
(* Items of text *)

Ch(c) == [c |-> c, id |-> <<>>, sp |-> 0]
Sig(id, sp) == [c |-> "void", id |-> id, sp |-> sp]
NL == Ch("NL")
IsSig(x) == x.c = "void"

\* The order of Python's string comparison on the atoms the model uses.  No atom
\* that can follow the same prefix in two identifiers is a prefix of another,
\* so comparing atom by atom is comparing character by character.
AtomRank(a) ==
    CASE a = "_" -> 0
      [] a = "a" -> 1
      [] a = "b" -> 2
      [] a = "clay_on_" -> 3
      [] a = "cleanup" -> 4
      [] a = "d" -> 5
      [] a = "init" -> 6
      [] a = "initialize" -> 7
      [] a = "other" -> 8
      [] a = "shutdown" -> 9
      [] a = "suite" -> 10
      [] a = "test" -> 11
      [] a = "test_" -> 12

RECURSIVE StrLess(_, _)
\* s < t for two identifiers (Python str.__lt__): a proper prefix is smaller
StrLess(s, t) ==
    IF t = <<>> THEN FALSE
    ELSE IF s = <<>> THEN TRUE
    ELSE IF Head(s) = Head(t) THEN StrLess(Tail(s), Tail(t))
    ELSE AtomRank(Head(s)) < AtomRank(Head(t))

\* d1 < d2 for two declaration texts "void" + sp blanks + id + "(void)": a blank
\* sorts before every identifier character, and "(" does too
DeclLess(d1, d2) ==
    \/ d1.sp > d2.sp
    \/ d1.sp = d2.sp /\ StrLess(d1.id, d2.id)

----------------------------------------------------------------------------
(* SKIP_COMMENTS_REGEX and _skip_comments *)

RECURSIVE LiteralEnd(_, _, _)
\* '(?:\\.|[^\\'])*' and "(?:\\.|[^\\"])*" : the index of the closing quote q of
\* a literal whose body starts at i, 0 if the text ends first
LiteralEnd(text, i, q) ==
    IF i > Len(text) THEN 0
    ELSE IF text[i] = Ch("BS")
         THEN IF i + 1 > Len(text) THEN 0 ELSE LiteralEnd(text, i + 2, q)
    ELSE IF text[i] = q THEN i
    ELSE LiteralEnd(text, i + 1, q)

\* //.*?$ : the last index of the line comment whose "//" is at i, i+1
LineCommentEnd(text, i) ==
    LET stops == {j \in (i + 2)..(Len(text) + 1) : j = Len(text) + 1 \/ text[j] = NL}
    IN  (CHOOSE j \in stops : \A k \in stops : j <= k) - 1

\* /\*.*?\*/ : the last index of the block comment whose "/*" is at i, i+1; 0 if
\* no "*/" follows
BlockCommentEnd(text, i) ==
    LET ends == {j \in (i + 2)..(Len(text) - 1) : text[j] = Ch("*") /\ text[j + 1] = Ch("/")}
    IN  IF ends = {} THEN 0
        ELSE (CHOOSE j \in ends : \A k \in ends : j <= k) + 1

\* The last index of the match of SKIP_COMMENTS_REGEX that starts at i, 0 if none
SKIP_COMMENTS_REGEX(text, i) ==
    IF text[i] = Ch("/") /\ i < Len(text) /\ text[i + 1] = Ch("/")
        THEN LineCommentEnd(text, i)
    ELSE IF text[i] = Ch("/") /\ i < Len(text) /\ text[i + 1] = Ch("*")
        THEN BlockCommentEnd(text, i)
    ELSE IF text[i] = Ch("SQ") \/ text[i] = Ch("DQ")
        THEN LiteralEnd(text, i + 1, text[i])
    ELSE 0

RECURSIVE KeptFrom(_, _)
\* re.sub with _replacer, from index i on: the indices of text that stay.  A match
\* that starts with "/" becomes "", any other match is put back as it is.
KeptFrom(text, i) ==
    IF i > Len(text) THEN <<>>
    ELSE LET m == SKIP_COMMENTS_REGEX(text, i)
         IN  IF m = 0 THEN <<i>> \o KeptFrom(text, i + 1)
             ELSE IF text[i] = Ch("/") THEN KeptFrom(text, m + 1)
             ELSE [k \in 1..(m - i + 1) |-> i + k - 1] \o KeptFrom(text, m + 1)

_skip_comments(text) ==
    LET kept == KeptFrom(text, 1)
    IN  [k \in 1..Len(kept) |-> text[kept[k]]]

----------------------------------------------------------------------------
(* TEST_FUNC_REGEX and EVENT_CB_REGEX *)

CLAY_EVENTS == << <<"init">>, <<"shutdown">>, <<"test">>, <<"suite">> >>

Range(s) == {s[i] : i \in 1..Len(s)}

\* ^ under re.MULTILINE: the start of the text or just after a newline
AtLineStart(text, i) == i = 1 \/ text[i - 1] = NL

StartsWith(s, p) == Len(s) >= Len(p) /\ SubSeq(s, 1, Len(p)) = p

\* The indices where ^(void\s+(<prefix>(\w+))\(\s*void\s*\))\s*\{ matches
RegexMatches(text, prefix) ==
    {i \in 1..Len(text) :
        /\ IsSig(text[i])
        /\ AtLineStart(text, i)
        /\ StartsWith(text[i].id, prefix)
        /\ Len(text[i].id) > Len(prefix)}

RECURSIVE SetToSortedSeq(_)
SetToSortedSeq(S) ==
    IF S = {} THEN <<>>
    ELSE LET m == CHOOSE x \in S : \A y \in S : x <= y
         IN  <<m>> \o SetToSortedSeq(S \ {m})

\* regex.findall for TEST_FUNC_REGEX % suite_name: (declaration, symbol, short_name)
TEST_FUNC_REGEX(suite_name, contents) ==
    LET prefix == <<"test_">> \o suite_name \o <<"_", "_">>
        at == SetToSortedSeq(RegexMatches(contents, prefix))
    IN  [k \in 1..Len(at) |->
            [declaration |-> contents[at[k]],
             symbol |-> contents[at[k]].id,
             short_name |-> SubSeq(contents[at[k]].id, Len(prefix) + 1,
                                   Len(contents[at[k]].id))]]

\* EVENT_CB_REGEX.findall: (decl, event)
EVENT_CB_REGEX(contents) ==
    LET prefix == <<"clay_on_">>
        at == SetToSortedSeq(RegexMatches(contents, prefix))
    IN  [k \in 1..Len(at) |->
            [decl |-> contents[at[k]],
             event |-> SubSeq(contents[at[k]].id, 2, Len(contents[at[k]].id))]]

----------------------------------------------------------------------------
(* The registry: _process_events and _process_declarations *)

Put(d, k, v) == [x \in (DOMAIN d) \cup {k} |-> IF x = k THEN v ELSE d[x]]

\* sorted(s) / s.sort(): a stable sort.  Element i goes after every element that
\* is smaller and after every earlier element that is not greater.
SortBy(s, Less(_, _)) ==
    LET pos(i) == 1 + Cardinality({j \in 1..Len(s) :
                        \/ Less(s[j], s[i])
                        \/ ~Less(s[i], s[j]) /\ j < i})
    IN  [k \in 1..Len(s) |-> s[CHOOSE i \in 1..Len(s) : pos(i) = k]]

\* a variant of KeptEvents that keeps the callbacks of unknown events too
KeptEventsUnfiltered(contents) == EVENT_CB_REGEX(contents)

\* the events of the matches _process_events keeps
KeptEvents(contents) ==
    SelectSeq(EVENT_CB_REGEX(contents), LAMBDA m : m.event \in Range(CLAY_EVENTS))

\* a variant of LastNamed that keeps the first match of the reserved short name
FirstNamed(matches, name) ==
    LET sel == SelectSeq(matches, LAMBDA m : m.short_name = name)
    IN  IF sel = <<>> THEN <<>> ELSE <<sel[1]>>

\* the last match of the reserved short name, as a list of at most one element
LastNamed(matches, name) ==
    LET sel == SelectSeq(matches, LAMBDA m : m.short_name = name)
    IN  IF sel = <<>> THEN <<>> ELSE <<sel[Len(sel)]>>

Ordinary(matches) ==
    SelectSeq(matches, LAMBDA m : m.short_name # <<"initialize">>
                                  /\ m.short_name # <<"cleanup">>)

ShortNameLess(x, y) == StrLess(x.short_name, y.short_name)

\* a variant of SortCallbacks that leaves the callbacks in the order of the text
SortCallbacksUnsorted(callbacks) == callbacks

\* callbacks.sort(key=lambda x: x['short_name'])
SortCallbacks(callbacks) == SortBy(callbacks, ShortNameLess)

\* The registry of a ClayTestBuilder as one value
Registry(decls, names, cbs, suites, evs) ==
    [declarations |-> decls, suite_names |-> names, callback_data |-> cbs,
     suite_data |-> suites, event_callbacks |-> evs]

\* __init__, lines 56-60
EmptyRegistry == Registry(<<>>, <<>>, <<>>, <<>>, <<>>)

\* _process_events(contents): every match of a known event appends its
\* declaration and its event name
_process_events(R, contents) ==
    LET found == KeptEvents(contents)
    IN  [R EXCEPT
            !.declarations = @ \o [k \in 1..Len(found) |-> found[k].decl],
            !.event_callbacks = @ \o [k \in 1..Len(found) |-> found[k].event]]

\* a variant of _process_declarations without the early return of lines 267-268
_process_declarations_no_return(R, suite_name, contents) ==
    LET matches == TEST_FUNC_REGEX(suite_name, contents)
        initialize == LastNamed(matches, <<"initialize">>)
        cleanup == LastNamed(matches, <<"cleanup">>)
        callbacks == Ordinary(matches)
        suite == [name |-> suite_name, initialize |-> initialize,
                  cleanup |-> cleanup, cb_count |-> Len(callbacks)]
    IN  [R EXCEPT
            !.declarations =
                @ \o [k \in 1..Len(initialize) |-> initialize[k].declaration]
                  \o [k \in 1..Len(cleanup) |-> cleanup[k].declaration]
                  \o [k \in 1..Len(callbacks) |-> callbacks[k].declaration],
            !.callback_data = Put(@, suite_name, SortCallbacks(callbacks)),
            !.suite_data = Put(@, suite_name, suite),
            !.suite_names = Append(@, suite_name)]

\* _process_declarations(suite_name, contents)
_process_declarations(R, suite_name, contents) ==
    LET matches == TEST_FUNC_REGEX(suite_name, contents)
        initialize == LastNamed(matches, <<"initialize">>)
        cleanup == LastNamed(matches, <<"cleanup">>)
        callbacks == Ordinary(matches)
        suite == [name |-> suite_name, initialize |-> initialize,
                  cleanup |-> cleanup, cb_count |-> Len(callbacks)]
    IN  IF callbacks = <<>> THEN R
        ELSE [R EXCEPT
                !.declarations =
                    @ \o [k \in 1..Len(initialize) |-> initialize[k].declaration]
                      \o [k \in 1..Len(cleanup) |-> cleanup[k].declaration]
                      \o [k \in 1..Len(callbacks) |-> callbacks[k].declaration],
                !.callback_data = Put(@, suite_name, SortCallbacks(callbacks)),
                !.suite_data = Put(@, suite_name, suite),
                !.suite_names = Append(@, suite_name)]

\* _process_test_file(suite_name, contents)
_process_test_file(R, suite_name, contents) ==
    LET scrubbed == _skip_comments(contents)
    IN  _process_declarations(_process_events(R, scrubbed), suite_name, scrubbed)

----------------------------------------------------------------------------
(* Rendering *)

\* '{"%s", &%s}' % (cb['short_name'], cb['symbol'])
_render_cb(cb) == [text |-> "{\"%s\", &%s}", short_name |-> cb.short_name, symbol |-> cb.symbol]

NullCb == [text |-> "{NULL, NULL}", short_name |-> <<>>, symbol |-> <<>>]

\* suite[cb] rendered, or the null marker
RenderSlot(slot) == IF slot # <<>> THEN _render_cb(slot[1]) ELSE NullCb

\* name.replace("_", "::")
CleanName(name) == [i \in 1..Len(name) |-> IF name[i] = "_" THEN "::" ELSE name[i]]

_render_suite(suite) ==
    [clean_name |-> CleanName(suite.name),
     initialize |-> RenderSlot(suite.initialize),
     cleanup |-> RenderSlot(suite.cleanup),
     cb_ptr |-> <<"_clay_cb_">> \o suite.name,
     cb_count |-> suite.cb_count]

_render_callbacks(suite_name, callbacks) ==
    LET kept == SelectSeq(callbacks, LAMBDA cb : cb.short_name # <<"initialize">>
                                                 /\ cb.short_name # <<"cleanup">>)
    IN  [suite_name |-> suite_name,
         callbacks |-> [k \in 1..Len(kept) |-> _render_cb(kept[k])]]

\* the events whose "#define clay_on_%s() /* nop */" line is emitted, in order
_render_event_overrides(R) ==
    SelectSeq(CLAY_EVENTS, LAMBDA event : event \notin Range(R.event_callbacks))

\* the "extern %s;" lines of clay.h, in order
_render_header(R) ==
    [template |-> "clay.h",
     extern_declarations |-> SortBy(R.declarations, DeclLess)]

RECURSIVE SumLen(_, _)
\* sum(len(cbs) for cbs in d.values()) over the keys in K
SumLen(d, K) ==
    IF K = {} THEN 0
    ELSE LET k == CHOOSE x \in K : TRUE
         IN  Len(d[k]) + SumLen(d, K \ {k})

_render_main(R, mods) ==
    LET names == SortBy(R.suite_names, StrLess)
        rendered_suites == [k \in 1..Len(names) |-> _render_suite(R.suite_data[names[k]])]
        callbacks == [k \in 1..Len(names) |->
                         _render_callbacks(names[k], R.callback_data[names[k]])]
    IN  [template |-> "clay.c",
         clay_modules |-> mods,
         clay_callbacks |-> callbacks,
         clay_suites |-> rendered_suites,
         clay_suite_count |-> Len(rendered_suites),
         clay_callback_count |-> SumLen(R.callback_data, DOMAIN R.callback_data),
         clay_event_overrides |-> _render_event_overrides(R)]

----------------------------------------------------------------------------
(* The asset store: _load_file and _get_modules *)

\* the keys of CLAY_FILES
CLAY_FILES ==
    { <<"clay.c">>, <<"clay_print_", "default", ".c">>, <<"clay_print_", "tap", ".c">>,
      <<"clay_sandbox.c">>, <<"clay_fixtures.c">>, <<"clay_fs.c">>, <<"clay.h">> }

\* self.modules after __init__
Modules(print_mode) ==
    << <<"clay_sandbox.c">>, <<"clay_fixtures.c">>, <<"clay_fs.c">>,
       <<"clay_print_", print_mode, ".c">> >>

Exception(type, msg) == [type |-> type, msg |-> msg]

\* The exceptions loading the assets in filenames, in order, can end in.  Without
\* a clay_path a name that is no key of CLAY_FILES raises KeyError; with one, any
\* open() or read() of the directory's file may raise IOError.
LoadErrors(cpath, filenames) ==
    IF cpath = <<>>
    THEN LET missing == {i \in 1..Len(filenames) : filenames[i] \notin CLAY_FILES}
         IN  IF missing = {} THEN {}
             ELSE {Exception("KeyError",
                       filenames[CHOOSE i \in missing : \A j \in missing : i <= j])}
    ELSE {Exception("IOError", cpath \o filenames[i]) : i \in 1..Len(filenames)}

\* Whether every asset in filenames can be loaded
CanLoad(cpath, filenames) ==
    cpath # <<>> \/ \A i \in 1..Len(filenames) : filenames[i] \in CLAY_FILES

----------------------------------------------------------------------------
(* The scanned tree: os.walk, fnmatch.filter and the canonical name *)

File(dir, name) == [dir |-> dir, name |-> name]

\* the files a scanned tree may hold: b.c, b.h, a/b_d.c and a_b/d.c
Tree ==
    { File(<<>>, <<"b", ".c">>),
      File(<<>>, <<"b", ".h">>),
      File(<< <<"a">> >>, <<"b", "_", "d", ".c">>),
      File(<< <<"a", "_", "b">> >>, <<"d", ".c">>) }

\* fnmatch.filter(files, "*.c")
FnmatchC(name) == name # <<>> /\ name[Len(name)] = ".c"

RECURSIVE Join(_)
\* "_".join(parts)
Join(parts) ==
    IF parts = <<>> THEN <<>>
    ELSE IF Len(parts) = 1 THEN parts[1]
    ELSE parts[1] \o <<"_">> \o Join(Tail(parts))

\* test_name: "_".join(module_root + [test_file[:-2]])
TestName(f) == Join(f.dir \o <<SubSeq(f.name, 1, Len(f.name) - 1)>>)

\* os.walk is top-down: a directory's files are yielded before those of its
\* subdirectories; the order among siblings is the file system's
Precedes(g, f) == Len(g.dir) < Len(f.dir) /\ SubSeq(f.dir, 1, Len(g.dir)) = g.dir

----------------------------------------------------------------------------
(* The source texts the model draws the files' contents from *)

TestId(suite, short) == <<"test_">> \o suite \o <<"_", "_">> \o short

SuiteABD == <<"a", "_", "b", "_", "d">>

Lines ==
    { << Sig(TestId(SuiteABD, <<"a">>), 1) >>,
      << Sig(TestId(SuiteABD, <<"b">>), 1) >>,
      << Sig(TestId(SuiteABD, <<"initialize">>), 1) >>,
      << Sig(TestId(SuiteABD, <<"initialize">>), 2) >>,
      << Sig(TestId(SuiteABD, <<"cleanup">>), 1) >>,
      << Sig(TestId(<<"b">>, <<"d">>), 1) >>,
      << Sig(<<"clay_on_", "init">>, 1) >>,
      << Sig(<<"clay_on_", "other">>, 1) >>,
      << Ch("/"), Ch("/"), Sig(TestId(SuiteABD, <<"a">>), 1) >> }

RECURSIVE JoinLines(_)
JoinLines(ls) ==
    IF ls = <<>> THEN <<>>
    ELSE IF Len(ls) = 1 THEN ls[1]
    ELSE ls[1] \o <<NL>> \o JoinLines(Tail(ls))

\* the texts of one to n lines
Texts(n) == {JoinLines(ls) : ls \in UNION {[1..k -> Lines] : k \in 1..n}}

LineCount(text) ==
    IF text = <<>> THEN 0 ELSE 1 + Cardinality({i \in 1..Len(text) : text[i] = NL})

\* the characters and the one signature the texts of LexTexts are made of
LexItems ==
    { Ch("/"), Ch("*"), NL, Ch("DQ"), Ch("SQ"), Ch("BS"),
      Sig(TestId(SuiteABD, <<"a">>), 1) }

\* the texts of at most MaxTextLen items
LexTexts == UNION {[1..k -> LexItems] : k \in 0..MaxTextLen}

RECURSIVE UsedLines(_)
UsedLines(us) ==
    IF us = <<>> THEN 0 ELSE LineCount(us[1].contents) + UsedLines(Tail(us))

----------------------------------------------------------------------------
(* The run: main(), ClayTestBuilder.__init__ and render *)

\* the folders, --clay-path values and --report-to values main() is started with;
\* "." , None and "default" are the defaults of lines 41-46
Roots == {".", "tests"}
ClayPaths == {<<>>, <<"assets/">>}
PrintModes == {"default", "junit"}

Absent == [state |-> "absent", content |-> <<>>]
Truncated == [state |-> "empty", content |-> <<>>]
Partial == [state |-> "partial", content |-> <<>>]
Written(text) == [state |-> "complete", content |-> <<text>>]

Reg == Registry(declarations, suite_names, callback_data, suite_data, event_callbacks)

SetReg(R) ==
    /\ declarations' = R.declarations
    /\ suite_names' = R.suite_names
    /\ callback_data' = R.callback_data
    /\ suite_data' = R.suite_data
    /\ event_callbacks' = R.event_callbacks

\* the names bound where line 90 evaluates folder_name: the locals of __init__
\* and the module's globals
InitLocals ==
    {"self", "path", "clay_path", "print_mode", "root", "dirs", "files", "module_root",
     "tests_in_module", "test_file", "full_path", "test_name", "f"}
ModuleGlobals ==
    {"with_statement", "Template", "re", "fnmatch", "os", "VERSION", "TEST_FUNC_REGEX",
     "EVENT_CB_REGEX", "SKIP_COMMENTS_REGEX", "CLAY_HEADER", "CLAY_EVENTS", "main",
     "ClayTestBuilder", "CLAY_FILES"}

\* lines 89-90: raise RuntimeError('No tests found under "%s"' % folder_name)
NoTestsFound(root) ==
    IF "folder_name" \in InitLocals \cup ModuleGlobals
    THEN Exception("RuntimeError", <<"No tests found under \"", root, "\"">>)
    ELSE Exception("NameError", <<"name 'folder_name' is not defined">>)

\* the builder after lines 56-71, for one choice of main()'s folder and options
Constructing(root, cpath, print_mode) ==
    /\ path = root
    /\ clay_path = cpath
    /\ modules = Modules(print_mode)
    /\ declarations = EmptyRegistry.declarations
    /\ suite_names = EmptyRegistry.suite_names
    /\ callback_data = EmptyRegistry.callback_data
    /\ suite_data = EmptyRegistry.suite_data
    /\ event_callbacks = EmptyRegistry.event_callbacks
    /\ todo = {f \in Tree : FnmatchC(f.name)}
    /\ units = <<>>
    /\ main_file = Absent
    /\ header_file = Absent
    /\ err = <<>>
    /\ pc = "walk"

\* main() without arguments
Init == Constructing(".", <<>>, "default")

\* main() with any folder and options
InitRun == \E root \in Roots, cpath \in ClayPaths, mode \in PrintModes :
               Constructing(root, cpath, mode)

\* lines 75-86: the walk yields file f, whose text is contents.  The scanned tree
\* is any subset of Tree: a file that os.walk would have yielded before f and
\* did not is not in the tree, and the walk may end after any file.
ProcessTestFile(f, contents) ==
    /\ pc = "walk"
    /\ f \in todo
    /\ todo' = {g \in todo : g # f /\ ~Precedes(g, f)}
    /\ units' = Append(units, [name |-> TestName(f), contents |-> contents])
    /\ SetReg(_process_test_file(Reg, TestName(f), contents))
    /\ UNCHANGED <<path, clay_path, modules, main_file, header_file, err, pc>>

\* lines 88-90: the walk is over and no suite was found
NoSuites ==
    /\ pc = "walk"
    /\ DOMAIN suite_data = {}
    /\ err' = <<NoTestsFound(path)>>
    /\ pc' = "failed"
    /\ UNCHANGED <<path, clay_path, modules, declarations, suite_names, callback_data,
                   suite_data, event_callbacks, todo, units, main_file, header_file>>

\* line 51: the builder is constructed and main() calls render()
Constructed ==
    /\ pc = "walk"
    /\ DOMAIN suite_data # {}
    /\ pc' = "render"
    /\ UNCHANGED <<path, clay_path, modules, declarations, suite_names, callback_data,
                   suite_data, event_callbacks, todo, units, main_file, header_file, err>>

Fail(e) ==
    /\ err' = <<e>>
    /\ pc' = "failed"

\* line 94: open(main_file, "w") creates or truncates clay_main.c
OpenMain ==
    /\ pc = "render"
    /\ \/ main_file' = Truncated /\ pc' = "main_open" /\ UNCHANGED err
       \/ Fail(Exception("IOError", <<path, "/clay_main.c">>)) /\ UNCHANGED main_file
    /\ UNCHANGED <<path, clay_path, modules, declarations, suite_names, callback_data,
                   suite_data, event_callbacks, todo, units, header_file>>

\* line 95: out.write(self._render_main()), and the with block closes the file
WriteMain ==
    /\ pc = "main_open"
    /\ \/ /\ CanLoad(clay_path, <<<<"clay.c">>>> \o modules)
          /\ main_file' = Written(_render_main(Reg, modules))
          /\ pc' = "main_written"
          /\ UNCHANGED err
       \/ /\ \E e \in LoadErrors(clay_path, <<<<"clay.c">>>> \o modules) : Fail(e)
          /\ UNCHANGED main_file
       \/ /\ CanLoad(clay_path, <<<<"clay.c">>>> \o modules)
          /\ main_file' = Partial
          /\ Fail(Exception("IOError", <<path, "/clay_main.c">>))
    /\ UNCHANGED <<path, clay_path, modules, declarations, suite_names, callback_data,
                   suite_data, event_callbacks, todo, units, header_file>>

\* line 98: open(header_file, "w") creates or truncates clay.h
OpenHeader ==
    /\ pc = "main_written"
    /\ \/ header_file' = Truncated /\ pc' = "header_open" /\ UNCHANGED err
       \/ Fail(Exception("IOError", <<path, "/clay.h">>)) /\ UNCHANGED header_file
    /\ UNCHANGED <<path, clay_path, modules, declarations, suite_names, callback_data,
                   suite_data, event_callbacks, todo, units, main_file>>

\* line 99: out.write(self._render_header()), and the with block closes the file
WriteHeader ==
    /\ pc = "header_open"
    /\ \/ /\ CanLoad(clay_path, <<<<"clay.h">>>>)
          /\ header_file' = Written(_render_header(Reg))
          /\ pc' = "done"
          /\ UNCHANGED err
       \/ /\ \E e \in LoadErrors(clay_path, <<<<"clay.h">>>>) : Fail(e)
          /\ UNCHANGED header_file
       \/ /\ CanLoad(clay_path, <<<<"clay.h">>>>)
          /\ header_file' = Partial
          /\ Fail(Exception("IOError", <<path, "/clay.h">>))
    /\ UNCHANGED <<path, clay_path, modules, declarations, suite_names, callback_data,
                   suite_data, event_callbacks, todo, units, main_file>>

\* the scan of a tree of at most MaxLines lines
Scan ==
    \E f \in todo : \E contents \in Texts(MaxLines - UsedLines(units)) :
        ProcessTestFile(f, contents)

\* the scan of a tree of at most MaxRunLines lines
ScanRun ==
    \E f \in todo : \E contents \in Texts(MaxRunLines - UsedLines(units)) :
        ProcessTestFile(f, contents)

\* the scan of one file whose text is drawn character by character
ScanLex ==
    /\ units = <<>>
    /\ \E f \in todo : \E contents \in LexTexts : ProcessTestFile(f, contents)

Next == Scan

NextRun ==
    \/ ScanRun
    \/ NoSuites
    \/ Constructed
    \/ OpenMain
    \/ WriteMain
    \/ OpenHeader
    \/ WriteHeader

\* the scan phase of the default invocation
Spec == Init /\ [][Next]_vars

\* the whole run, for every folder and option
SpecRun == InitRun /\ [][NextRun]_vars

\* the scan of one file of the default invocation, over every short text
SpecLex == Init /\ [][ScanLex]_vars

----------------------------------------------------------------------------
(* What the claims are stated with *)

\* the matches of the test matcher in a processed unit
UnitMatches(u) == TEST_FUNC_REGEX(u.name, _skip_comments(u.contents))

\* the matches of the event matcher in a processed unit
UnitEvents(u) == EVENT_CB_REGEX(_skip_comments(u.contents))

\* the unit registered a suite: it has an ordinary test
Registers(u) ==
    LET ms == UnitMatches(u)
    IN  \E k \in 1..Len(ms) : ms[k].short_name \notin {<<"initialize">>, <<"cleanup">>}

\* the ordinary tests of a unit, in the order of the text
OrdinaryTests(u) ==
    SelectSeq(UnitMatches(u),
              LAMBDA m : m.short_name \notin {<<"initialize">>, <<"cleanup">>})

\* the unit the suite named s was last registered from
SourceUnit(s) ==
    LET from == {i \in 1..Len(units) : units[i].name = s /\ Registers(units[i])}
    IN  units[CHOOSE i \in from : \A j \in from : j <= i]

\* the positions of the matches of a reserved short name in a unit
Reserved(u, name) ==
    LET ms == UnitMatches(u)
    IN  {k \in 1..Len(ms) : ms[k].short_name = name}

Max(S) == CHOOSE x \in S : \A y \in S : y <= x

Harness == _render_main(Reg, modules)
Header == _render_header(Reg)

RECURSIVE Feed(_, _)
\* the registry after the units us are processed in order, starting from R
Feed(R, us) ==
    IF us = <<>> THEN R
    ELSE Feed(_process_test_file(R, us[1].name, us[1].contents), Tail(us))

Orders(n) == {p \in [1..n -> 1..n] : \A i, j \in 1..n : p[i] = p[j] => i = j}

RECURSIVE Sum(_)
\* the sum of a sequence of numbers
Sum(s) == IF s = <<>> THEN 0 ELSE s[1] + Sum(Tail(s))

RECURSIVE SpanFrom(_, _)
\* the indices of text, from i on, inside a comment or a quoted literal
SpanFrom(text, i) ==
    IF i > Len(text) THEN {}
    ELSE LET m == SKIP_COMMENTS_REGEX(text, i)
         IN  IF m = 0 THEN SpanFrom(text, i + 1)
             ELSE (i..m) \cup SpanFrom(text, m + 1)

----------------------------------------------------------------------------
(* The claims *)

\* C1: every suite of the registry gets a callback array; an array has exactly
\* the N >= 1 ordinary tests of the suite's unit as its entries, in ascending
\* order of short name, and no entry is the suite's initialize or cleanup.
C1_ArrayHasTheOrdinaryTests ==
    LET arrays == Harness.clay_callbacks IN
    /\ \A s \in DOMAIN suite_data :
           \E k \in 1..Len(arrays) : arrays[k].suite_name = s
    /\ \A k \in 1..Len(arrays) :
           LET arr == arrays[k]
               tests == OrdinaryTests(SourceUnit(arr.suite_name))
               N == Len(tests)
           IN  /\ N >= 1
               /\ Len(arr.callbacks) = N
               /\ suite_data[arr.suite_name].cb_count = N
               /\ \A i \in 1..(N - 1) :
                      ~StrLess(arr.callbacks[i + 1].short_name, arr.callbacks[i].short_name)
               /\ \A i \in 1..N :
                      /\ arr.callbacks[i].short_name \notin {<<"initialize">>, <<"cleanup">>}
                      /\ \E j \in 1..N :
                             /\ arr.callbacks[i].short_name = tests[j].short_name
                             /\ arr.callbacks[i].symbol = tests[j].symbol
               /\ \A j \in 1..N :
                      Cardinality({i \in 1..N : arr.callbacks[i].short_name = tests[j].short_name})
                        = Cardinality({i \in 1..N : tests[i].short_name = tests[j].short_name})

\* C1's case: a suite whose unit names two tests in descending order, and an
\* initialize too, has been rendered
C1_Witness ==
    LET arrays == Harness.clay_callbacks IN
    \E k \in 1..Len(arrays) :
        LET u == SourceUnit(arrays[k].suite_name)
            tests == OrdinaryTests(u)
        IN  /\ Len(tests) >= 2
            /\ StrLess(tests[2].short_name, tests[1].short_name)
            /\ Len(UnitMatches(u)) > Len(tests)

\* C2: the two artifacts do not depend on the order the units are processed in:
\* every permutation of the processed units renders the same header and harness.
C2_OrderIndependent ==
    \A p \in Orders(Len(units)) :
        LET R == Feed(EmptyRegistry, [i \in 1..Len(units) |-> units[p[i]]])
        IN  /\ _render_main(R, modules) = Harness
            /\ _render_header(R) = Header

\* C3: the header has one extern line per unique declaration text of the
\* registry, in ascending order, and no text on two lines.
C3_HeaderLinesUnique ==
    LET lines == Header.extern_declarations
    IN  /\ Range(lines) = Range(declarations)
        /\ \A i \in 1..(Len(lines) - 1) : ~DeclLess(lines[i + 1], lines[i])
        /\ \A i, j \in 1..Len(lines) : lines[i] = lines[j] => i = j

\* C4: no match of the test matcher or of the event matcher comes from text
\* inside a comment or inside a quoted literal of the unit's raw text.
C4_NoMatchInCommentOrLiteral ==
    \A n \in 1..Len(units) :
        LET raw == units[n].contents
            kept == KeptFrom(raw, 1)
            scrubbed == _skip_comments(raw)
            found == RegexMatches(scrubbed, <<"test_">> \o units[n].name \o <<"_", "_">>)
                     \cup RegexMatches(scrubbed, <<"clay_on_">>)
        IN  \A k \in found : kept[k] \notin SpanFrom(raw, 1)

\* C5: the no-op macro of an event of CLAY_EVENTS is emitted exactly when no
\* processed unit matched a callback of that event, with or without a suite;
\* callbacks of other names change no macro and add no declaration.
C5_NopMacroIffNotMatched ==
    LET macros == Range(Harness.clay_event_overrides)
        matched == UNION {{m.event : m \in Range(UnitEvents(units[n]))} : n \in 1..Len(units)}
    IN
    /\ \A j \in 1..Len(CLAY_EVENTS) : (CLAY_EVENTS[j] \in macros) <=> (CLAY_EVENTS[j] \notin matched)
    /\ macros \subseteq Range(CLAY_EVENTS)
    /\ \A d \in Range(declarations) :
           StartsWith(d.id, <<"clay_on_">>) => SubSeq(d.id, 2, Len(d.id)) \in Range(CLAY_EVENTS)

\* C5's case: a unit that yields no suite matched clay_on_init and a callback of
\* an unknown event
C5_Witness ==
    /\ suite_names = <<>>
    /\ <<"init">> \notin Range(Harness.clay_event_overrides)
    /\ \E n \in 1..Len(units) : \E m \in Range(UnitEvents(units[n])) :
           m.event \notin Range(CLAY_EVENTS)

\* C6: processing a unit without ordinary tests leaves suite_names, suite_data and
\* callback_data as they are and adds only the unit's event declarations.
C6_NoTestsNoSuite ==
    [][(units' # units /\ ~Registers(units'[Len(units')]))
        => /\ suite_names' = suite_names
           /\ suite_data' = suite_data
           /\ callback_data' = callback_data
           /\ LET evs == SelectSeq(UnitEvents(units'[Len(units')]),
                                   LAMBDA m : m.event \in Range(CLAY_EVENTS))
              IN  declarations' = declarations \o [k \in 1..Len(evs) |-> evs[k].decl]]_vars

\* C6's case: a unit with initialize and cleanup and no ordinary test went by
C6_Witness ==
    \E n \in 1..Len(units) :
        /\ ~Registers(units[n])
        /\ Reserved(units[n], <<"initialize">>) # {}
        /\ Reserved(units[n], <<"cleanup">>) # {}
        /\ units[n].name \notin DOMAIN suite_data

\* C7: a run that ends its scan with no suite ends in a fatal error whose
\* message names the scanned root, and creates neither artifact.
C7_NoSuitesErrorNamesRoot ==
    (pc # "walk" /\ DOMAIN suite_data = {})
        => /\ pc = "failed"
           /\ \E i \in 1..Len(err[1].msg) : err[1].msg[i] = path
           /\ main_file = Absent
           /\ header_file = Absent

\* C8: after a fatal failure each artifact is untouched or complete.
C8_NoHalfWrittenArtifact ==
    pc = "failed"
        => /\ main_file.state \in {"absent", "complete"}
           /\ header_file.state \in {"absent", "complete"}

\* C9: the suite count is the number of distinct suites and of descriptors, and
\* the callback count is the number of entries of the emitted arrays and the sum
\* of the descriptors' counts.
C9_CountsMatchTables ==
    /\ Harness.clay_suite_count = Cardinality(DOMAIN suite_data)
    /\ Harness.clay_suite_count = Len(Harness.clay_suites)
    /\ Harness.clay_callback_count = Sum([k \in 1..Len(Harness.clay_callbacks) |-> Len(Harness.clay_callbacks[k].callbacks)])
    /\ Harness.clay_callback_count = Sum([k \in 1..Len(Harness.clay_suites) |-> Harness.clay_suites[k].cb_count])

\* C10: a descriptor's initialize (cleanup) slot is the null marker exactly when
\* the suite's unit has no match of that short name; otherwise the suite keeps the
\* last match of the unit, the slot names its symbol and the header declares it;
\* the display name is the canonical name with "::" for "_", and the count is
\* the number of ordinary tests.
C10_DescriptorSlots ==
    LET descriptors == Harness.clay_suites IN
    \A k \in 1..Len(descriptors) :
        LET d == descriptors[k]
            s == Tail(d.cb_ptr)
            u == SourceUnit(s)
            SlotOk(slot, kept, name) ==
                LET at == Reserved(u, name)
                IN
                IF at = {}
                THEN slot = NullCb /\ kept = <<>>
                ELSE LET last == UnitMatches(u)[Max(at)]
                     IN  /\ kept = <<last>>
                         /\ slot.text # NullCb.text
                         /\ slot.short_name = name
                         /\ slot.symbol = last.symbol
                         /\ last.declaration \in Range(Header.extern_declarations)
        IN  /\ SlotOk(d.initialize, suite_data[s].initialize, <<"initialize">>)
            /\ SlotOk(d.cleanup, suite_data[s].cleanup, <<"cleanup">>)
            /\ Len(d.clean_name) = Len(s)
            /\ \A i \in 1..Len(s) :
                   IF s[i] = "_" THEN d.clean_name[i] = "::" ELSE d.clean_name[i] = s[i]
            /\ d.cb_count = Len(OrdinaryTests(u))

\* C10's case: a suite whose unit matches initialize twice, with different
\* texts, and has no cleanup
C10_Witness ==
    LET descriptors == Harness.clay_suites IN
    \E k \in 1..Len(descriptors) :
        LET u == SourceUnit(Tail(descriptors[k].cb_ptr))
            at == Reserved(u, <<"initialize">>)
        IN  /\ Cardinality(at) = 2
            /\ \E i, j \in at : UnitMatches(u)[i].declaration # UnitMatches(u)[j].declaration
            /\ descriptors[k].cleanup = NullCb

====
